---- MODULE Spec2Model ----
(***************************************************************************)
(* Binary-tree algorithms of src/main.cpp: the three depth-first           *)
(* traversals in recursive and explicit-stack form, isIdentical, the       *)
(* bottom and top views, and sumPostorder.                                 *)
(*                                                                         *)
(* A Node is named by its path from the root (<<>> is the root, 0 a step   *)
(* to the left child, 1 a step to the right child); the heap is the three  *)
(* fields data, left and right of every constructed Node.                  *)
(***************************************************************************)
EXTENDS Integers, Sequences, FiniteSets, TLC

VARIABLES root, data, left, right,   \* the tree: root pointer and Node fields
          data0,                     \* history: Node::data as constructed
          dataPrev,                  \* history: Node::data before the latest sumPostorder
          op, pc,                    \* operation in progress and its position
          args,                      \* arguments of the operation in progress
          stack, corrupt,            \* std::stack<NodePtr> stack; popped while empty
          curr,                      \* NodePtr curr
          out,                       \* std::stack<int> out (postorderIterative)
          output,                    \* values written to std::cout
          fault,                     \* the undefined behaviour met so far
          ret,                       \* value returned by an int function
          rets,                      \* history: returns of sumPostorder calls
          pushes, pops,              \* history: pushes / pops of each Node
          calls,                     \* pending printBottom/printTop invocations
          map                        \* std::map<int, std::pair<int,int>> map

vars == <<root, data, left, right, data0, dataPrev, op, pc, args, stack, corrupt, curr,
          out, output, fault, ret, rets, pushes, pops, calls, map>>

tree == <<root, left, right, data0>>
heap == <<tree, data, dataPrev>>
locals == <<stack, corrupt, curr, out, pushes, pops, calls, map>>

----------------------------------------------------------------------------
\* Bounds of the model.
MaxNodes == 5      \* a tree has at most MaxNodes Nodes
MaxVal == 1        \* Node::data is constructed in 0..MaxVal
MaxSumCalls == 2   \* sumPostorder is called at most this many times in a row
MaxEmit == 2       \* values followed after inorderIterative reads an empty stack
MaxViewNodes == 10 \* a tree given to the views alone has at most MaxViewNodes Nodes

\* The null NodePtr.
NULL == <<2>>

Values == 0..MaxVal

\* All shapes of n Nodes whose root is the Node at path p.
RECURSIVE ShapesAt(_, _)
ShapesAt(p, n) ==
    IF n = 0 THEN {{}}
    ELSE UNION {{({p} \cup l) \cup r : l \in ShapesAt(Append(p, 0), k),
                                      r \in ShapesAt(Append(p, 1), n - 1 - k)}
                : k \in 0..(n - 1)}

\* struct Node: the constructor sets data and leaves both children null;
\* main links the children.
MakeLeft(shape) == [p \in shape |-> IF Append(p, 0) \in shape THEN Append(p, 0) ELSE NULL]
MakeRight(shape) == [p \in shape |-> IF Append(p, 1) \in shape THEN Append(p, 1) ELSE NULL]

Nodes == DOMAIN data

\* The locals of main before its first call.
MainStart ==
    /\ op = "main"
    /\ pc = "idle"
    /\ args = <<>>
    /\ stack = <<>>
    /\ corrupt = FALSE
    /\ curr = NULL
    /\ out = <<>>
    /\ output = <<>>
    /\ fault = {}
    /\ ret = 0
    /\ rets = <<>>
    /\ calls = <<>>
    /\ map = <<>>

\* main before its first call, the tree built with the given shape and data.
Constructed(shape, d) ==
    /\ root = (IF shape = {} THEN NULL ELSE <<>>)
    /\ data = d
    /\ data0 = d
    /\ dataPrev = d
    /\ left = MakeLeft(shape)
    /\ right = MakeRight(shape)
    /\ pushes = [p \in shape |-> 0]
    /\ pops = [p \in shape |-> 0]
    /\ MainStart

Init ==
    \E n \in 0..MaxNodes :
      \E shape \in ShapesAt(<<>>, n) :
        \E d \in [shape -> Values] : Constructed(shape, d)

\* q is constructed before p when main builds the tree parent first, left
\* subtree before right subtree.
Before(q, p) ==
    \/ Len(q) < Len(p) /\ SubSeq(p, 1, Len(q)) = q
    \/ \E i \in 1..Len(q) : /\ i <= Len(p)
                            /\ SubSeq(p, 1, i - 1) = SubSeq(q, 1, i - 1)
                            /\ q[i] < p[i]

\* Distinct data 1, 2, ... as in main's sample tree.
Numbered(shape) == [p \in shape |-> 1 + Cardinality({q \in shape : Before(q, p)})]

InitView ==
    \E n \in 0..MaxViewNodes :
      \E shape \in ShapesAt(<<>>, n) : Constructed(shape, Numbered(shape))

----------------------------------------------------------------------------
\* Depth-first traversals, recursive form.

RECURSIVE inorderRecursive(_)
inorderRecursive(node) ==
    IF node = NULL THEN <<>>
    ELSE inorderRecursive(left[node]) \o <<data[node]>> \o inorderRecursive(right[node])

RECURSIVE preorderRecursive(_)
preorderRecursive(node) ==
    IF node = NULL THEN <<>>
    ELSE <<data[node]>> \o preorderRecursive(left[node]) \o preorderRecursive(right[node])

\* postorderRecursive descends with inorderRecursive on both children.
postorderRecursive(node) ==
    IF node = NULL THEN <<>>
    ELSE inorderRecursive(left[node]) \o inorderRecursive(right[node]) \o <<data[node]>>

\* main: nothing has been called yet / the last call was sumPostorder.
Idle == pc = "idle"
AfterSum == pc = "done" /\ op = "sumPostorder"

Begin(name, a) ==
    /\ op' = name
    /\ args' = a

Finished == pc' = "done"

CallInorderRecursive ==
    /\ Idle \/ AfterSum
    /\ Begin("inorderRecursive", <<root>>)
    /\ output' = inorderRecursive(root)
    /\ Finished
    /\ UNCHANGED <<heap, locals, fault, ret, rets>>

CallPreorderRecursive ==
    /\ Idle
    /\ Begin("preorderRecursive", <<root>>)
    /\ output' = preorderRecursive(root)
    /\ Finished
    /\ UNCHANGED <<heap, locals, fault, ret, rets>>

CallPostorderRecursive ==
    /\ Idle
    /\ Begin("postorderRecursive", <<root>>)
    /\ output' = postorderRecursive(root)
    /\ Finished
    /\ UNCHANGED <<heap, locals, fault, ret, rets>>

----------------------------------------------------------------------------
\* Depth-first traversals, explicit-stack form.  The top of a std::stack is
\* the last element of the sequence.

Top(s) == s[Len(s)]
Pop(s) == SubSeq(s, 1, Len(s) - 1)
Push(s, x) == Append(s, x)

\* A value read through a dangling reference: any NodePtr.
Garbage == Nodes \cup {NULL}

\* stack.empty(); a stack popped while empty reports anything.
Empty(s) == IF corrupt THEN BOOLEAN ELSE {s = <<>>}

Count(f, x) == IF x \in DOMAIN f THEN [f EXCEPT ![x] = @ + 1] ELSE f

CallInorderIterative ==
    /\ Idle
    /\ Begin("inorderIterative", <<root>>)
    /\ stack' = <<>>
    /\ curr' = root
    /\ pc' = "loop"
    /\ UNCHANGED <<heap, corrupt, out, output, fault, ret, rets, pushes, pops, calls, map>>

\* while (!stack.empty() || curr != nullptr) is false.
InorderIterativeExit ==
    /\ op = "inorderIterative" /\ pc = "loop"
    /\ \E e \in Empty(stack) : ~(~e \/ curr # NULL)
    /\ pc' = "done"
    /\ UNCHANGED <<heap, op, args, locals, output, fault, ret, rets>>

\* if (!curr): pushes the null curr and reads curr->left through it.
InorderIterativePush ==
    /\ op = "inorderIterative" /\ pc = "loop"
    /\ \E e \in Empty(stack) : ~e \/ curr # NULL
    /\ curr = NULL
    /\ stack' = Push(stack, curr)
    /\ pushes' = Count(pushes, curr)
    /\ fault' = fault \cup {"NullDeref"}
    /\ pc' = "crashed"
    /\ UNCHANGED <<heap, op, args, corrupt, curr, out, output, ret, rets, pops, calls, map>>

\* else: curr = stack.top(); stack.pop(); print curr->data; curr = curr->right.
\* top() and pop() of an empty stack are undefined: the run stops, or goes on
\* with whatever NodePtr the read produced and a stack that is no longer sound.
InorderIterativePop ==
    /\ op = "inorderIterative" /\ pc = "loop"
    /\ \E e \in Empty(stack) : ~e \/ curr # NULL
    /\ curr # NULL
    /\ IF stack # <<>> /\ ~corrupt
       THEN /\ stack' = Pop(stack)
            /\ pops' = Count(pops, Top(stack))
            /\ corrupt' = corrupt
            /\ IF Top(stack) = NULL
               THEN /\ fault' = fault \cup {"NullDeref"}
                    /\ pc' = "crashed"
                    /\ curr' = Top(stack)
                    /\ output' = output
               ELSE /\ output' = Append(output, data[Top(stack)])
                    /\ curr' = right[Top(stack)]
                    /\ UNCHANGED <<fault, pc>>
       ELSE /\ fault' = fault \cup {"EmptyStackTop"}
            /\ \/ /\ pc' = "crashed"
                  /\ UNCHANGED <<stack, corrupt, curr, output, pops>>
               \/ /\ Len(output) < MaxEmit
                  /\ \E g \in Garbage :
                       IF g = NULL
                       THEN /\ pc' = "crashed"
                            /\ curr' = g
                            /\ output' = output
                       ELSE /\ output' = Append(output, data[g])
                            /\ curr' = right[g]
                            /\ pc' = pc
                  /\ corrupt' = TRUE
                  /\ UNCHANGED <<stack, pops>>
    /\ UNCHANGED <<heap, op, args, out, ret, rets, pushes, calls, map>>

\* preorderIterative without its "if (!node) return;".
CallPreorderIterativeNoGuard ==
    /\ Idle
    /\ Begin("preorderIterative", <<root>>)
    /\ stack' = Push(<<>>, root)
    /\ pushes' = Count(pushes, root)
    /\ pc' = "loop"
    /\ UNCHANGED <<heap, corrupt, curr, out, output, fault, ret, rets, pops, calls, map>>

CallPreorderIterative ==
    /\ Idle
    /\ Begin("preorderIterative", <<root>>)
    /\ IF root = NULL
       THEN /\ pc' = "done"
            /\ UNCHANGED <<stack, pushes>>
       ELSE /\ stack' = Push(<<>>, root)
            /\ pushes' = Count(pushes, root)
            /\ pc' = "loop"
    /\ UNCHANGED <<heap, corrupt, curr, out, output, fault, ret, rets, pops, calls, map>>

\* if (c) stack.push(c);
PushIf(s, c) == IF c # NULL THEN Push(s, c) ELSE s

\* A mistaken order: the left child below the right child's place.
PreorderPushLeftFirst(s, c) == PushIf(PushIf(s, left[c]), right[c])

\* preorderIterative pushes curr->right, then curr->left.
PreorderPush(s, c) == PushIf(PushIf(s, right[c]), left[c])

\* postorderIterative pushes curr->left, then curr->right.
PostorderPush(s, c) == PushIf(PushIf(s, left[c]), right[c])

\* Reading curr->data through a null curr stops the run.
NullDeref ==
    /\ fault' = fault \cup {"NullDeref"}
    /\ pc' = "crashed"

PreorderIterativeStep ==
    /\ op = "preorderIterative" /\ pc = "loop"
    /\ stack # <<>>
    /\ LET c == Top(stack) IN
         /\ curr' = c
         /\ pops' = Count(pops, c)
         /\ IF c = NULL
            THEN /\ NullDeref
                 /\ stack' = Pop(stack)
                 /\ UNCHANGED <<output, pushes>>
            ELSE /\ output' = Append(output, data[c])
                 /\ stack' = PreorderPush(Pop(stack), c)
                 /\ pushes' = Count(Count(pushes, right[c]), left[c])
                 /\ UNCHANGED <<fault, pc>>
    /\ UNCHANGED <<heap, op, args, corrupt, out, ret, rets, calls, map>>

PreorderIterativeExit ==
    /\ op = "preorderIterative" /\ pc = "loop"
    /\ stack = <<>>
    /\ pc' = "done"
    /\ UNCHANGED <<heap, op, args, locals, output, fault, ret, rets>>

CallPostorderIterative ==
    /\ Idle
    /\ Begin("postorderIterative", <<root>>)
    /\ IF root = NULL
       THEN /\ pc' = "done"
            /\ UNCHANGED <<stack, pushes, out>>
       ELSE /\ stack' = Push(<<>>, root)
            /\ pushes' = Count(pushes, root)
            /\ out' = <<>>
            /\ pc' = "loop"
    /\ UNCHANGED <<heap, corrupt, curr, output, fault, ret, rets, pops, calls, map>>

PostorderIterativeStep ==
    /\ op = "postorderIterative" /\ pc = "loop"
    /\ stack # <<>>
    /\ LET c == Top(stack) IN
         /\ curr' = c
         /\ pops' = Count(pops, c)
         /\ IF c = NULL
            THEN /\ NullDeref
                 /\ stack' = Pop(stack)
                 /\ UNCHANGED <<out, pushes>>
            ELSE /\ out' = Push(out, data[c])
                 /\ stack' = PostorderPush(Pop(stack), c)
                 /\ pushes' = Count(Count(pushes, left[c]), right[c])
                 /\ UNCHANGED <<fault, pc>>
    /\ UNCHANGED <<heap, op, args, corrupt, output, ret, rets, calls, map>>

PostorderIterativeExit ==
    /\ op = "postorderIterative" /\ pc = "loop"
    /\ stack = <<>>
    /\ pc' = "emit"
    /\ UNCHANGED <<heap, op, args, locals, output, fault, ret, rets>>

\* while (!out.empty()) { print out.top(); out.pop(); }
PostorderIterativeEmit ==
    /\ op = "postorderIterative" /\ pc = "emit"
    /\ out # <<>>
    /\ output' = Append(output, Top(out))
    /\ out' = Pop(out)
    /\ UNCHANGED <<heap, op, pc, args, stack, corrupt, curr, fault, ret, rets, pushes, pops, calls, map>>

PostorderIterativeReturn ==
    /\ op = "postorderIterative" /\ pc = "emit"
    /\ out = <<>>
    /\ pc' = "done"
    /\ UNCHANGED <<heap, op, args, locals, output, fault, ret, rets>>

----------------------------------------------------------------------------
\* Structural equality.

\* isIdentical without the comparison of the right subtrees.
RECURSIVE isIdenticalNoRight(_, _)
isIdenticalNoRight(x, y) ==
    IF x = NULL /\ y = NULL THEN 1
    ELSE IF /\ (x # NULL /\ y # NULL)
            /\ data[x] = data[y]
            /\ isIdenticalNoRight(left[x], left[y]) # 0
         THEN 1 ELSE 0

RECURSIVE isIdentical(_, _)
isIdentical(x, y) ==
    IF x = NULL /\ y = NULL THEN 1
    ELSE IF /\ (x # NULL /\ y # NULL)
            /\ data[x] = data[y]
            /\ isIdentical(left[x], left[y]) # 0
            /\ isIdentical(right[x], right[y]) # 0
         THEN 1 ELSE 0

CallIsIdentical ==
    /\ Idle
    /\ \E x \in Garbage, y \in Garbage :
         /\ Begin("isIdentical", <<x, y>>)
         /\ ret' = isIdentical(x, y)
    /\ Finished
    /\ UNCHANGED <<heap, locals, output, fault, rets>>

----------------------------------------------------------------------------
\* Bottom and top views.  calls holds the invocations of the recursive helper
\* still to run, the next one last; map[d] is <<value, level>>.

Frame(node, dist, level) == [node |-> node, dist |-> dist, level |-> level]

\* map[dist] of std::map: inserts a value-initialised pair when dist is absent.
Subscript(m, dist) == IF dist \in DOMAIN m THEN m ELSE (dist :> <<0, 0>>) @@ m

Assign(m, dist, pair) == [d \in DOMAIN m \cup {dist} |-> IF d = dist THEN pair ELSE m[d]]

MinKey(m) == CHOOSE k \in DOMAIN m : \A j \in DOMAIN m : k <= j

\* for (auto it : map) print it.second.first: ascending keys.
RECURSIVE Firsts(_)
Firsts(m) ==
    IF DOMAIN m = {} THEN <<>>
    ELSE LET k == MinKey(m)
         IN <<m[k][1]>> \o Firsts([d \in DOMAIN m \ {k} |-> m[d]])

\* The recursive calls of a helper on node's children: left runs first.
Descend(cs, f) ==
    Push(Push(Pop(cs), Frame(right[f.node], f.dist + 1, f.level + 1)),
         Frame(left[f.node], f.dist - 1, f.level + 1))

\* printBottom's test written "level > map[dist].second".
BottomRecordStrict(m, f) ==
    LET m1 == Subscript(m, f.dist)
    IN IF f.level > m1[f.dist][2] THEN Assign(m1, f.dist, <<data[f.node], f.level>>) ELSE m1

\* if (level >= map[dist].second) map[dist] = {node->data, level};
BottomRecord(m, f) ==
    LET m1 == Subscript(m, f.dist)
    IN IF f.level >= m1[f.dist][2] THEN Assign(m1, f.dist, <<data[f.node], f.level>>) ELSE m1

\* printTop's test written "level <= map[dist].second".
TopRecordNonStrict(m, f) ==
    IF f.dist \notin DOMAIN m \/ f.level <= m[f.dist][2]
    THEN Assign(m, f.dist, <<data[f.node], f.level>>) ELSE m

\* if (map.find(dist) == map.end() || level < map[dist].second) map[dist] = ...
TopRecord(m, f) ==
    IF f.dist \notin DOMAIN m \/ f.level < m[f.dist][2]
    THEN Assign(m, f.dist, <<data[f.node], f.level>>) ELSE m

CallPrintBottom ==
    /\ Idle
    /\ Begin("printBottom", <<root>>)
    /\ map' = <<>>
    /\ calls' = <<Frame(root, 0, 0)>>
    /\ pc' = "walk"
    /\ UNCHANGED <<heap, stack, corrupt, curr, out, output, fault, ret, rets, pushes, pops>>

\* One invocation of printBottom(node, dist, level, map).
PrintBottomVisit ==
    /\ op = "printBottom" /\ pc = "walk"
    /\ calls # <<>>
    /\ LET f == Top(calls) IN
         IF f.node = NULL
         THEN /\ calls' = Pop(calls)
              /\ map' = map
         ELSE /\ map' = BottomRecord(map, f)
              /\ calls' = Descend(calls, f)
    /\ UNCHANGED <<heap, op, pc, args, stack, corrupt, curr, out, output, fault, ret, rets, pushes, pops>>

PrintBottomEmit ==
    /\ op = "printBottom" /\ pc = "walk"
    /\ calls = <<>>
    /\ output' = Firsts(map)
    /\ pc' = "done"
    /\ UNCHANGED <<heap, op, args, locals, fault, ret, rets>>

CallPrintTop ==
    /\ Idle
    /\ Begin("printTop", <<root>>)
    /\ map' = <<>>
    /\ calls' = <<Frame(root, 0, 0)>>
    /\ pc' = "walk"
    /\ UNCHANGED <<heap, stack, corrupt, curr, out, output, fault, ret, rets, pushes, pops>>

\* One invocation of printTop(node, dist, level, map).
PrintTopVisit ==
    /\ op = "printTop" /\ pc = "walk"
    /\ calls # <<>>
    /\ LET f == Top(calls) IN
         IF f.node = NULL
         THEN /\ calls' = Pop(calls)
              /\ map' = map
         ELSE /\ map' = TopRecord(map, f)
              /\ calls' = Descend(calls, f)
    /\ UNCHANGED <<heap, op, pc, args, stack, corrupt, curr, out, output, fault, ret, rets, pushes, pops>>

PrintTopEmit ==
    /\ op = "printTop" /\ pc = "walk"
    /\ calls = <<>>
    /\ output' = Firsts(map)
    /\ pc' = "done"
    /\ UNCHANGED <<heap, op, args, locals, fault, ret, rets>>

----------------------------------------------------------------------------
\* sumPostorder: returns a pair of the int returned and Node::data afterwards.

\* sumPostorder returning node->data alone.
RECURSIVE sumPostorderDropsPrev(_, _)
sumPostorderDropsPrev(node, d) ==
    IF node = NULL THEN [ret |-> 0, data |-> d]
    ELSE LET l == sumPostorderDropsPrev(left[node], d)
             r == sumPostorderDropsPrev(right[node], l.data)
             newData == l.ret + r.ret
         IN [ret |-> newData, data |-> [r.data EXCEPT ![node] = newData]]

\* sumPostorder that never stores into node->data.
RECURSIVE sumPostorderNoStore(_, _)
sumPostorderNoStore(node, d) ==
    IF node = NULL THEN [ret |-> 0, data |-> d]
    ELSE LET l == sumPostorderNoStore(left[node], d)
             r == sumPostorderNoStore(right[node], l.data)
         IN [ret |-> l.ret + r.ret + r.data[node], data |-> r.data]

\* sumPostorder storing leftSum alone.
RECURSIVE sumPostorderLeftOnly(_, _)
sumPostorderLeftOnly(node, d) ==
    IF node = NULL THEN [ret |-> 0, data |-> d]
    ELSE LET l == sumPostorderLeftOnly(left[node], d)
             r == sumPostorderLeftOnly(right[node], l.data)
             prevData == r.data[node]
         IN [ret |-> l.ret + r.ret + prevData, data |-> [r.data EXCEPT ![node] = l.ret]]

RECURSIVE sumPostorder(_, _)
sumPostorder(node, d) ==
    IF node = NULL THEN [ret |-> 0, data |-> d]
    ELSE LET l == sumPostorder(left[node], d)
             r == sumPostorder(right[node], l.data)
             leftSum == l.ret
             rightSum == r.ret
             prevData == r.data[node]
             newData == leftSum + rightSum
         IN [ret |-> newData + prevData, data |-> [r.data EXCEPT ![node] = newData]]

CallSumPostorder ==
    /\ Idle \/ AfterSum
    /\ Len(rets) < MaxSumCalls
    /\ Begin("sumPostorder", <<root>>)
    /\ LET r == sumPostorder(root, data) IN
         /\ data' = r.data
         /\ ret' = r.ret
         /\ rets' = Append(rets, r.ret)
    /\ dataPrev' = data
    /\ Finished
    /\ UNCHANGED <<tree, locals, output, fault>>

----------------------------------------------------------------------------
Next ==
    \/ CallInorderRecursive
    \/ CallPreorderRecursive
    \/ CallPostorderRecursive
    \/ CallInorderIterative
    \/ InorderIterativeExit
    \/ InorderIterativePush
    \/ InorderIterativePop
    \/ CallPreorderIterative
    \/ PreorderIterativeStep
    \/ PreorderIterativeExit
    \/ CallPostorderIterative
    \/ PostorderIterativeStep
    \/ PostorderIterativeExit
    \/ PostorderIterativeEmit
    \/ PostorderIterativeReturn
    \/ CallIsIdentical
    \/ CallPrintBottom
    \/ PrintBottomVisit
    \/ PrintBottomEmit
    \/ CallPrintTop
    \/ PrintTopVisit
    \/ PrintTopEmit
    \/ CallSumPostorder

Spec == Init /\ [][Next]_vars

\* The views alone, on larger trees of distinct data.
NextView ==
    \/ CallPrintBottom
    \/ PrintBottomVisit
    \/ PrintBottomEmit
    \/ CallPrintTop
    \/ PrintTopVisit
    \/ PrintTopEmit

SpecView == InitView /\ [][NextView]_vars

----------------------------------------------------------------------------
\* Vocabulary of the properties.

Done(name) == op = name /\ pc = "done"

IsLeaf(p) == left[p] = NULL /\ right[p] = NULL

\* Level and horizontal distance of the Node at path p.
Level(p) == Len(p)

RECURSIVE Dist(_)
Dist(p) == IF p = <<>> THEN 0 ELSE Dist(Pop(p)) + (IF Top(p) = 0 THEN -1 ELSE 1)

\* The Nodes of the subtree at node.
RECURSIVE Subtree(_)
Subtree(node) ==
    IF node = NULL THEN {} ELSE ({node} \cup Subtree(left[node])) \cup Subtree(right[node])

\* The Nodes in preorder, and the place of a Node in that order.
RECURSIVE PreorderNodes(_)
PreorderNodes(node) ==
    IF node = NULL THEN <<>>
    ELSE <<node>> \o PreorderNodes(left[node]) \o PreorderNodes(right[node])

Visit(p) == CHOOSE i \in 1..Len(PreorderNodes(root)) : PreorderNodes(root)[i] = p

\* The values in postorder: left subtree, right subtree, the node.
RECURSIVE Postorder(_)
Postorder(node) ==
    IF node = NULL THEN <<>>
    ELSE Postorder(left[node]) \o Postorder(right[node]) \o <<data[node]>>

RECURSIVE SumOver(_, _)
SumOver(S, f) ==
    IF S = {} THEN 0
    ELSE LET x == CHOOSE y \in S : TRUE IN f[x] + SumOver(S \ {x}, f)

RECURSIVE Ascending(_)
Ascending(S) ==
    IF S = {} THEN <<>>
    ELSE LET k == CHOOSE x \in S : \A y \in S : x <= y IN <<k>> \o Ascending(S \ {k})

Occupied == Ascending({Dist(p) : p \in Nodes})

\* Shape and values of the subtree at x, as positions relative to x.
Content(x) ==
    {<<SubSeq(p, Len(x) + 1, Len(p)), data[p]>> : p \in Subtree(x)}

TraversalOps == {"inorderRecursive", "inorderIterative", "preorderRecursive",
                 "preorderIterative", "postorderRecursive", "postorderIterative"}

----------------------------------------------------------------------------
\* C1: inorderIterative emits the sequence inorderRecursive emits and ends
\* without dereferencing an absent node or reading the top of an empty stack.
C1_InorderIterativeMatchesRecursive ==
    op = "inorderIterative" =>
        /\ fault = {}
        /\ pc # "crashed"
        /\ pc = "done" => output = inorderRecursive(root)

\* C2: postorderRecursive and postorderIterative both emit the postorder
\* sequence: left subtree in postorder, right subtree in postorder, the node.
C2_PostorderBothForms ==
    (Done("postorderRecursive") \/ Done("postorderIterative")) =>
        output = Postorder(root)

\* C3: preorderIterative emits the sequence preorderRecursive emits; every
\* node is pushed exactly once and popped exactly once, and the loop ends
\* with an empty stack.
C3_PreorderIterativeMatchesRecursive ==
    op = "preorderIterative" =>
        /\ fault = {}
        /\ \A p \in Nodes : pops[p] <= pushes[p] /\ pushes[p] <= 1
        /\ pc = "done" =>
             /\ output = preorderRecursive(root)
             /\ stack = <<>>
             /\ \A p \in Nodes : pushes[p] = 1 /\ pops[p] = 1

C3_Witness ==
    /\ Done("preorderIterative")
    /\ root # NULL /\ left[root] # NULL /\ right[root] # NULL
    /\ data[left[root]] # data[right[root]]
    /\ ~IsLeaf(left[root])

\* C4 as stated: sumPostorder returns the sum of the original values plus
\* the sum of the new values of the non-leaf nodes, which is not the sum of
\* the original values.
C4_ReturnsOriginalsPlusTransformed ==
    Done("sumPostorder") =>
        /\ ret = SumOver(Nodes, dataPrev) + SumOver({p \in Nodes : ~IsLeaf(p)}, data)
        /\ ret # SumOver(Nodes, dataPrev)

\* C4 amended: sumPostorder returns the sum of the values the nodes held
\* before the call (the new root value plus the root's previous value).
C4_ReturnsSumOfOriginals ==
    Done("sumPostorder") =>
        /\ ret = SumOver(Nodes, dataPrev)
        /\ root # NULL => ret = data[root] + dataPrev[root]

C4_Witness ==
    /\ Done("sumPostorder")
    /\ \E p \in Nodes : ~IsLeaf(p) /\ p # root /\ data[p] # 0
    /\ ret # 0

\* C5 as stated: on a non-empty tree the second of two sumPostorder calls
\* in a row returns a value different from the first.
C5_SecondCallDiffers ==
    (root # NULL /\ Len(rets) >= 2) => rets[2] # rets[1]

\* C5 amended: the first call returns the sum of the original values, the
\* second the sum of level * original value; the two differ exactly when
\* the sum of (level - 1) * original value is not 0.
C5_SecondCallWeighsByLevel ==
    Len(rets) >= 2 =>
        /\ rets[1] = SumOver(Nodes, data0)
        /\ rets[2] = SumOver(Nodes, [p \in Nodes |-> Level(p) * data0[p]])
        /\ rets[2] # rets[1] <=>
             SumOver(Nodes, [p \in Nodes |-> (Level(p) - 1) * data0[p]]) # 0

C5_Witness ==
    /\ Len(rets) >= 2
    /\ rets[2] # rets[1]
    /\ \E p \in Nodes : Level(p) >= 2 /\ data0[p] # 0

\* C6 as stated: after sumPostorder every leaf holds 0 and every other node
\* holds the sum of the new values of its children, an absent child being 0.
C6_NewValueIsSumOfNewChildren ==
    Done("sumPostorder") =>
        \A p \in Nodes :
            data[p] = SumOver({left[p], right[p]} \ {NULL}, data)

\* C6 amended: after sumPostorder every leaf holds 0 and every other node
\* holds the sum, over its children, of the child's new value plus the
\* child's value before the call: the sum of the previous values of all its
\* proper descendants.
C6_NewValueIsSumOfDescendants ==
    Done("sumPostorder") =>
        \A p \in Nodes :
            /\ IsLeaf(p) => data[p] = 0
            /\ data[p] = SumOver({left[p], right[p]} \ {NULL},
                                 [c \in Nodes |-> data[c] + dataPrev[c]])
            /\ data[p] = SumOver(Subtree(p) \ {p}, dataPrev)

C6_Witness ==
    /\ Done("sumPostorder")
    /\ \E p \in Nodes : /\ left[p] # NULL /\ right[p] # NULL
                        /\ dataPrev[left[p]] # 0 /\ dataPrev[right[p]] # 0
                        /\ ~IsLeaf(left[p])

\* The node printBottom keeps for distance d: greatest level, the one
\* visited last in preorder among those of that level.
BottomNode(d) ==
    CHOOSE p \in Nodes :
        /\ Dist(p) = d
        /\ \A q \in Nodes : (Dist(q) = d /\ q # p) =>
             \/ Level(q) < Level(p)
             \/ Level(q) = Level(p) /\ Visit(q) < Visit(p)

\* C7: printBottom emits one value per occupied horizontal distance, in
\* ascending order of distance: the value of the node of greatest level at
\* that distance, the last visited in preorder winning among equal levels.
C7_BottomView ==
    Done("printBottom") =>
        output = [i \in 1..Len(Occupied) |-> data[BottomNode(Occupied[i])]]

\* Two nodes share the greatest level of their distance.
C7_Witness ==
    /\ Done("printBottom")
    /\ \E p \in Nodes, q \in Nodes :
         /\ p # q /\ Dist(p) = Dist(q) /\ Level(p) = Level(q)
         /\ q = BottomNode(Dist(q))
         /\ Visit(p) < Visit(q)
         /\ data[p] # data[q]

\* The node printTop keeps for distance d: smallest level, the one visited
\* first in preorder among those of that level.
TopNode(d) ==
    CHOOSE p \in Nodes :
        /\ Dist(p) = d
        /\ \A q \in Nodes : (Dist(q) = d /\ q # p) =>
             \/ Level(q) > Level(p)
             \/ Level(q) = Level(p) /\ Visit(q) > Visit(p)

TopViewEmitted ==
    Done("printTop") =>
        output = [i \in 1..Len(Occupied) |-> data[TopNode(Occupied[i])]]

\* An entry of the map changes only to a strictly smaller level.
TopReplacesOnlyHigher ==
    op = "printTop" =>
        \A d \in DOMAIN map :
            /\ d \in DOMAIN map'
            /\ map'[d] # map[d] => map'[d][2] < map[d][2]

\* C8: printTop emits one value per occupied horizontal distance, in
\* ascending order of distance: the value of the node of smallest level at
\* that distance; a recorded entry is replaced only by a node of strictly
\* smaller level, so the first visited in preorder is kept among equals.
C8_TopView == []TopViewEmitted /\ [][TopReplacesOnlyHigher]_vars

\* Two nodes share the smallest level of their distance.
C8_Witness ==
    /\ Done("printTop")
    /\ \E p \in Nodes, q \in Nodes :
         /\ p # q /\ Dist(p) = Dist(q) /\ Level(p) = Level(q)
         /\ p = TopNode(Dist(p))
         /\ Visit(p) < Visit(q)
         /\ data[p] # data[q]

\* C9: isIdentical(x, y) is non-zero exactly when the trees at x and y have
\* the same shape and the same value at every position (both empty, or both
\* present with equal values and identical left and right subtrees); so it
\* is non-zero for (T, T) and zero when exactly one tree is empty.
C9_IsIdentical ==
    Done("isIdentical") =>
        LET x == args[1]
            y == args[2]
        IN /\ ret \in {0, 1}
           /\ ret # 0 <=> Content(x) = Content(y)
           /\ ret # 0 <=>
                \/ x = NULL /\ y = NULL
                \/ /\ x # NULL /\ y # NULL
                   /\ data[x] = data[y]
                   /\ Content(left[x]) = Content(left[y])
                   /\ Content(right[x]) = Content(right[y])
           /\ x = y => ret # 0
           /\ (x = NULL) # (y = NULL) => ret = 0

\* Two different subtrees with right children are found identical.
C9_Witness ==
    /\ Done("isIdentical")
    /\ args[1] # NULL /\ args[2] # NULL /\ args[1] # args[2]
    /\ right[args[1]] # NULL
    /\ ret = 1

\* C10: on an empty tree each of the six traversals emits nothing and ends
\* without error, and sumPostorder returns 0.
C10_EmptyTree ==
    root = NULL =>
        /\ op \in TraversalOps =>
             /\ output = <<>>
             /\ fault = {}
             /\ pc \in {"done", "loop"}
             /\ pc = "loop" => op = "inorderIterative" /\ stack = <<>> /\ curr = NULL
        /\ Done("sumPostorder") => ret = 0 /\ output = <<>>

C10_Witness ==
    /\ root = NULL
    /\ Done("inorderIterative")
====
